---- MODULE Spec2Model ----
(***************************************************************************)
(* A model of yt_dashboard.py: the daily stats recorder (save_daily_stats) *)
(* over its backing CSV file, run sequentially and by two concurrent       *)
(* processes, the render cycle of the Streamlit script, and the            *)
(* top-10-by-views selection.                                              *)
(***************************************************************************)
EXTENDS Integers, Sequences, FiniteSets, TLC

\* ------------------------------------------------------------------ bounds

\* Number of consecutive calendar days the wall clock can show.
MaxDay == 3

\* Largest number of data rows of a log that exists before the first call.
MaxInitRows == 1

\* Largest number of save_daily_stats calls the concurrent processes start.
MaxCalls == 2

\* Largest stride of the view-count patterns of the videos.list responses.
MaxStride == 3

\* ---------------------------------------------------------------- text

Digits == <<"0", "1", "2", "3", "4", "5", "6", "7", "8", "9">>

DigitVal(c) == (CHOOSE i \in 1..10 : Digits[i] = c) - 1

RECURSIVE ToStr(_)
\* str(n) of a non-negative integer, as to_csv writes it.
ToStr(n) == IF n < 10 THEN <<Digits[n + 1]>>
            ELSE ToStr(n \div 10) \o <<Digits[(n % 10) + 1]>>

RECURSIVE ParseInt(_)
\* The integer read_csv (and int()) parses from a string of decimal digits.
ParseInt(s) == IF Len(s) = 0 THEN 0
               ELSE 10 * ParseInt(SubSeq(s, 1, Len(s) - 1)) + DigitVal(s[Len(s)])

Pad(s, width) == [i \in 1..(width - Len(s)) |-> "0"] \o s

\* ---------------------------------------------------------------- clock

Days == 1..MaxDay

\* datetime.today() on the k-th day the clock can show: 2023-12-31, then
\* 2024-01-01, 2024-01-02, ...
Today(k) == IF k = 1 THEN [year |-> 2023, month |-> 12, day |-> 31]
            ELSE [year |-> 2024, month |-> 1, day |-> k - 1]

\* strftime("%Y-%m-%d")
strftime(d) == Pad(ToStr(d.year), 4) \o <<"-">> \o Pad(ToStr(d.month), 2)
               \o <<"-">> \o Pad(ToStr(d.day), 2)

DateStr(k) == strftime(Today(k))

\* The calendar date a "%Y-%m-%d" string denotes, as <<year, month, day>>.
DateKey(s) == <<ParseInt(SubSeq(s, 1, 4)), ParseInt(SubSeq(s, 6, 7)),
                ParseInt(SubSeq(s, 9, 10))>>

\* Calendar order of two date strings.
DateLeq(s, t) ==
    LET a == DateKey(s)
        b == DateKey(t)
    IN \/ a[1] < b[1]
       \/ a[1] = b[1] /\ a[2] < b[2]
       \/ a[1] = b[1] /\ a[2] = b[2] /\ a[3] <= b[3]

\* ------------------------------------------------------- channel counts

\* (subscribers, views, videos) triples the channel API can report.
Counts == { [subs |-> 100, views |-> 5000, videos |-> 10],
            [subs |-> 250, views |-> 12345, videos |-> 9] }

\* ------------------------------------------------------------ CSV file

Header == <<"date", "subscribers", "views", "videos">>

\* pd.DataFrame(columns=[...]): no rows.
EmptyDf == <<>>

\* One line of the CSV file for one row of the frame.
CsvLine(r) == <<r.date, ToStr(r.subscribers), ToStr(r.views), ToStr(r.videos)>>

\* df.to_csv(file, index=False): the header line, then one line per row.
ToCsv(frame) == <<Header>> \o [i \in 1..Len(frame) |-> CsvLine(frame[i])]

\* pd.read_csv(file): the rows below the header; the date column stays a
\* string, the count columns are parsed as integers.
ReadCsv(lines) ==
    [i \in 1..(Len(lines) - 1) |->
        [date        |-> lines[i + 1][1],
         subscribers |-> ParseInt(lines[i + 1][2]),
         views       |-> ParseInt(lines[i + 1][3]),
         videos      |-> ParseInt(lines[i + 1][4])]]

\* ------------------------------------------------------------- recorder

\* Lines 141-144: the frame loaded from the file, or an empty one.
LoadLog(ex, lines) == IF ex THEN ReadCsv(lines) ELSE EmptyDf

\* A faulty variant of HasDate: the membership test never finds today.
HasDateNever(frame, t) == FALSE

\* Line 148: today in df["date"].values
HasDate(frame, t) == \E i \in 1..Len(frame) : frame[i].date = t

\* Line 149: the new row.
NewRow(t, c) == [date |-> t, subscribers |-> c.subs, views |-> c.views,
                 videos |-> c.videos]

\* A faulty variant of ConcatRow: the new row replaces the last stored one.
ConcatRowOverLast(frame, row) ==
    IF Len(frame) = 0 THEN <<row>>
    ELSE SubSeq(frame, 1, Len(frame) - 1) \o <<row>>

\* A faulty variant of ConcatRow: the new row is put first.
ConcatRowFirst(frame, row) == <<row>> \o frame

\* Line 150: pd.concat([df, pd.DataFrame([new_row])], ignore_index=True)
ConcatRow(frame, row) == Append(frame, row)

\* A faulty variant of Written: lines the file held that the frame lacks are kept.
WrittenMerge(old, frame) ==
    LET new == ToCsv(frame)
    IN IF Len(old) = 0 THEN new
       ELSE <<Header>>
            \o SelectSeq(Tail(old), LAMBDA l : \A i \in 2..Len(new) : new[i] # l)
            \o Tail(new)

\* A faulty variant of Written: an existing file is appended to, not replaced.
WrittenAppend(old, frame) ==
    IF Len(old) = 0 THEN ToCsv(frame)
    ELSE old \o <<CsvLine(frame[Len(frame)])>>

\* Line 151: the file's content after df.to_csv(file, index=False), which
\* replaces whatever the file held (old).
Written(old, frame) == ToCsv(frame)

\* ------------------------------------------------------------------ state

Procs == {"p1", "p2"}

VARIABLES
    exists,       \* os.path.exists("channel_history.csv")
    file,         \* the lines of channel_history.csv (<<>> when absent)
    pc,           \* per process: its position in save_daily_stats
    df,           \* per process: local df
    today,        \* per process: local today (<<>> before it is read)
    args,         \* per process: (subs, views, videos) of its current call
    wrote,        \* per process: whether its current call reached to_csv
    firstCounts,  \* history: per day, the counts of the first call on it
    initDates,    \* history: the dates the log held at the start
    calls         \* history: the number of calls started by the processes

recorderVars == <<exists, file, pc, df, today, args, wrote, firstCounts, initDates, calls>>

VARIABLES
    rpc,          \* the script's position in the current render cycle
    events,       \* what the current cycle has done and rendered, in order
    token,        \* os.path.exists(TOKEN_PICKLE)
    channel,      \* the counts read from channel_data (<<>> before the fetch)
    trend         \* history_df as handed to px.line (<<>> before the chart)

renderVars == <<rpc, events, token, channel, trend>>

VARIABLES
    items,        \* response["items"] of videos().list (<<>> before the call)
    video_stats,  \* the list get_video_stats returns
    df_videos     \* the sorted frame cut to its head, rows with their index

topVars == <<items, video_stats, df_videos>>

vars == <<recorderVars, renderVars, topVars>>

\* Logs the recorder can have left behind: no file, or up to MaxInitRows
\* rows on distinct days.
RECURSIVE FramesOfLen(_)
FramesOfLen(n) ==
    IF n = 0 THEN {EmptyDf}
    ELSE {ConcatRow(f, NewRow(DateStr(k), c)) :
            f \in FramesOfLen(n - 1), k \in Days, c \in Counts}

DistinctDates(frame) ==
    \A i, j \in 1..Len(frame) : frame[i].date = frame[j].date => i = j

InitFrames == {f \in UNION {FramesOfLen(n) : n \in 0..MaxInitRows} : DistinctDates(f)}

NoCall == <<>>

InitRecorder ==
    /\ \E ex \in BOOLEAN, f \in InitFrames :
          /\ exists = ex
          /\ file = IF ex THEN ToCsv(f) ELSE <<>>
          /\ (~ex => f = EmptyDf)
          /\ initDates = {f[i].date : i \in 1..Len(f)}
    /\ pc = [p \in Procs |-> "idle"]
    /\ df = [p \in Procs |-> EmptyDf]
    /\ today = [p \in Procs |-> <<>>]
    /\ args = [p \in Procs |-> CHOOSE c \in Counts : TRUE]
    /\ wrote = [p \in Procs |-> FALSE]
    /\ firstCounts = [k \in Days |-> NoCall]
    /\ calls = 0

\* The history of first calls, after a call with counts c on day k.
Noted(k, c) == IF firstCounts[k] = NoCall
               THEN [firstCounts EXCEPT ![k] = <<c>>]
               ELSE firstCounts

\* A faulty variant of SaveDailyStats: to_csv is outside the if and runs on every call.
SaveDailyStatsAlwaysWrites(p, c, k) ==
    LET loaded == LoadLog(exists, file)
        t      == DateStr(k)
        absent == ~HasDate(loaded, t)
        out    == IF absent THEN ConcatRow(loaded, NewRow(t, c)) ELSE loaded
    IN /\ df' = [df EXCEPT ![p] = out]
       /\ today' = [today EXCEPT ![p] = t]
       /\ args' = [args EXCEPT ![p] = c]
       /\ wrote' = [wrote EXCEPT ![p] = TRUE]
       /\ file' = Written(file, out)
       /\ exists' = TRUE
       /\ firstCounts' = Noted(k, c)
       /\ UNCHANGED <<pc, initDates, calls>>

\* Lines 136-151: one whole invocation save_daily_stats(c.subs, c.views,
\* c.videos) by process p while the clock shows day k.
SaveDailyStats(p, c, k) ==
    LET loaded == LoadLog(exists, file)
        t      == DateStr(k)
        absent == ~HasDate(loaded, t)
        out    == IF absent THEN ConcatRow(loaded, NewRow(t, c)) ELSE loaded
    IN /\ df' = [df EXCEPT ![p] = out]
       /\ today' = [today EXCEPT ![p] = t]
       /\ args' = [args EXCEPT ![p] = c]
       /\ wrote' = [wrote EXCEPT ![p] = absent]
       /\ IF absent
          THEN file' = Written(file, out) /\ exists' = TRUE
          ELSE UNCHANGED <<file, exists>>
       /\ firstCounts' = Noted(k, c)
       /\ UNCHANGED <<pc, initDates, calls>>

\* The script has not run yet.
InitRender ==
    /\ rpc = "start"
    /\ events = <<>>
    /\ token = FALSE
    /\ channel = <<>>
    /\ trend = <<>>

\* No video statistics are fetched yet.
InitVideos ==
    /\ items = <<>>
    /\ video_stats = <<>>
    /\ df_videos = <<>>

Init == InitRecorder /\ InitRender /\ InitVideos

Next == \E c \in Counts, k \in Days :
            SaveDailyStats("p1", c, k) /\ UNCHANGED <<renderVars, topVars>>

Spec == Init /\ [][Next]_vars

\* ------------------------------------- the recorder, one step at a time

\* Lines 141-144 of a call save_daily_stats(c.subs, c.views, c.videos) by p.
Load(p, c) ==
    /\ pc[p] = "idle"
    /\ calls < MaxCalls
    /\ calls' = calls + 1
    /\ args' = [args EXCEPT ![p] = c]
    /\ df' = [df EXCEPT ![p] = LoadLog(exists, file)]
    /\ pc' = [pc EXCEPT ![p] = "clock"]
    /\ UNCHANGED <<exists, file, today, wrote, firstCounts, initDates>>

\* Line 146, while p's clock shows day k.
ReadClock(p, k) ==
    /\ pc[p] = "clock"
    /\ today' = [today EXCEPT ![p] = DateStr(k)]
    /\ pc' = [pc EXCEPT ![p] = "check"]
    /\ UNCHANGED <<exists, file, df, args, wrote, firstCounts, initDates, calls>>

\* Lines 148-150: the membership test on p's own frame, and the concat.
Check(p) ==
    /\ pc[p] = "check"
    /\ IF ~HasDate(df[p], today[p])
       THEN /\ df' = [df EXCEPT ![p] = ConcatRow(df[p], NewRow(today[p], args[p]))]
            /\ pc' = [pc EXCEPT ![p] = "write"]
       ELSE /\ pc' = [pc EXCEPT ![p] = "done"]
            /\ UNCHANGED df
    /\ UNCHANGED <<exists, file, today, args, wrote, firstCounts, initDates, calls>>

\* Line 151: the whole file is replaced by p's frame.
Write(p) ==
    /\ pc[p] = "write"
    /\ file' = Written(file, df[p])
    /\ exists' = TRUE
    /\ wrote' = [wrote EXCEPT ![p] = TRUE]
    /\ pc' = [pc EXCEPT ![p] = "done"]
    /\ UNCHANGED <<df, today, args, firstCounts, initDates, calls>>

\* The call returns; its locals are gone, and p may call again.
Return(p) ==
    /\ pc[p] = "done"
    /\ pc' = [pc EXCEPT ![p] = "idle"]
    /\ df' = [df EXCEPT ![p] = EmptyDf]
    /\ today' = [today EXCEPT ![p] = <<>>]
    /\ wrote' = [wrote EXCEPT ![p] = FALSE]
    /\ UNCHANGED <<exists, file, args, firstCounts, initDates, calls>>

NextConc ==
    \E p \in Procs :
        \/ \E c \in Counts : Load(p, c) /\ UNCHANGED <<renderVars, topVars>>
        \/ \E k \in Days : ReadClock(p, k) /\ UNCHANGED <<renderVars, topVars>>
        \/ Check(p) /\ UNCHANGED <<renderVars, topVars>>
        \/ Write(p) /\ UNCHANGED <<renderVars, topVars>>
        \/ Return(p) /\ UNCHANGED <<renderVars, topVars>>

\* Two processes, each running save_daily_stats again and again on the same
\* file, with no lock between their steps.
SpecConc == Init /\ [][NextConc]_vars

\* ------------------------------------------------------ the render cycle

\* A faulty variant of ScriptOrder: the cards are rendered before the stats are saved.
ScriptOrderCardsFirst ==
    <<"start", "auth", "channel", "cards", "save", "trend", "playlist",
      "videostats", "top10", "latest", "latest_table", "insights", "refresh",
      "end">>

\* Lines 177-277: the statements of the script in the order they run.
ScriptOrder ==
    <<"start", "auth", "channel", "save", "cards", "trend", "playlist",
      "videostats", "top10", "latest", "latest_table", "insights", "refresh",
      "end">>

\* The statement that follows pos.
After(pos) ==
    LET i == CHOOSE j \in 1..Len(ScriptOrder) : ScriptOrder[j] = pos
    IN ScriptOrder[i + 1]

\* A faulty variant of Handled: the failed request is skipped and the script goes on.
HandledGoesOn(pos) == After(pos)

\* Lines 279-280: where the script is after except HttpError has run.
Handled(pos) == "end"

\* A request of the video-platform client made at pos, after the elements
\* before (the heading of its section) are rendered: it returns (ok) and the
\* script goes on, or raises HttpError, which lines 279-280 turn into st.error.
Request(pos, before, name, ok) ==
    /\ rpc = pos
    /\ IF ok
       THEN /\ events' = events \o before \o <<name>>
            /\ rpc' = After(pos)
       ELSE /\ events' = events \o before \o <<name, "HttpError", "st.error">>
            /\ rpc' = Handled(pos)

\* Lines 173-181: the title and the account button; a click clears the token
\* and stops the script.
StartRun(clicked) ==
    /\ rpc = "start"
    /\ IF clicked
       THEN /\ token' = FALSE
            /\ events' = events \o <<"title", "account_button", "token_cleared">>
            /\ rpc' = "end"
       ELSE /\ events' = events \o <<"title", "account_button">>
            /\ rpc' = After("start")
            /\ UNCHANGED token
    /\ UNCHANGED <<channel, trend, recorderVars, topVars>>

\* Line 184 (68-79): the stored token is loaded, or the sign-in flow runs and
\* stores one.
Authenticate ==
    /\ rpc = "auth"
    /\ token' = TRUE
    /\ events' = Append(events, "auth")
    /\ rpc' = After("auth")
    /\ UNCHANGED <<channel, trend, recorderVars, topVars>>

\* Lines 187-191: get_channel_stats and the three counts.
FetchChannel(ok, c) ==
    /\ Request("channel", <<>>, "channels.list", ok)
    /\ channel' = IF ok THEN <<c>> ELSE channel
    /\ UNCHANGED <<token, trend, recorderVars, topVars>>

\* Line 194: save_daily_stats(subs, views, videos_count), on day k.
SaveStats(k) ==
    /\ rpc = "save"
    /\ SaveDailyStats("p1", channel[1], k)
    /\ events' = Append(events, "save_daily_stats")
    /\ rpc' = After("save")
    /\ UNCHANGED <<token, channel, trend, topVars>>

\* Lines 199-203: the channel heading and the three metric cards.
RenderCards ==
    /\ rpc = "cards"
    /\ events' = events \o <<"h_channel", "cards">>
    /\ rpc' = After("cards")
    /\ UNCHANGED <<token, channel, trend, recorderVars, topVars>>

\* Lines 210-228: the trend heading and, when the log exists, the line chart
\* over the log as read, and the download button.
RenderTrend ==
    /\ rpc = "trend"
    /\ IF exists
       THEN /\ trend' = ReadCsv(file)
            /\ events' = events \o <<"h_trend", "trend_chart", "download">>
       ELSE /\ events' = Append(events, "h_trend")
            /\ UNCHANGED trend
    /\ rpc' = After("trend")
    /\ UNCHANGED <<token, channel, recorderVars, topVars>>

\* Lines 234-241: the top-10 heading, then playlistItems().list.
FetchPlaylist(ok) ==
    /\ Request("playlist", <<"h_top10">>, "playlistItems.list", ok)
    /\ UNCHANGED <<token, channel, trend, recorderVars, topVars>>

\* Lines 243-244: get_video_stats.
FetchVideoStats(ok) ==
    /\ Request("videostats", <<>>, "videos.list", ok)
    /\ UNCHANGED <<token, channel, trend, recorderVars, topVars>>

\* Lines 246-250: the top-10 table and bar chart.
RenderTop10 ==
    /\ rpc = "top10"
    /\ events' = events \o <<"top10_table", "top10_chart">>
    /\ rpc' = After("top10")
    /\ UNCHANGED <<token, channel, trend, recorderVars, topVars>>

\* Lines 255-256: the latest-videos heading, then get_latest_videos.
FetchLatest(ok) ==
    /\ Request("latest", <<"h_latest">>, "search.list", ok)
    /\ UNCHANGED <<token, channel, trend, recorderVars, topVars>>

\* Lines 257-258: the latest-videos table.
RenderLatest ==
    /\ rpc = "latest_table"
    /\ events' = events \o <<"latest_table">>
    /\ rpc' = After("latest_table")
    /\ UNCHANGED <<token, channel, trend, recorderVars, topVars>>

\* Lines 263-268: the insights heading and button; on a click the language
\* model is called, and its failure is not caught: the cycle ends there.
Insights(clicked, ok) ==
    /\ rpc = "insights"
    /\ IF ~clicked
       THEN /\ events' = events \o <<"h_insights", "insights_button">>
            /\ rpc' = After("insights")
       ELSE IF ok
       THEN /\ events' = events \o <<"h_insights", "insights_button", "click",
                                      "generate_content", "insights">>
            /\ rpc' = After("insights")
       ELSE /\ events' = events \o <<"h_insights", "insights_button", "click",
                                      "generate_content", "uncaught">>
            /\ rpc' = "end"
    /\ UNCHANGED <<token, channel, trend, recorderVars, topVars>>

\* Lines 274-277: the auto-refresh checkbox; when checked, the script sleeps
\* and reruns from the top.
AutoRefresh(checked) ==
    /\ rpc = "refresh"
    /\ IF checked
       THEN /\ rpc' = "start"
            /\ events' = <<>>
            /\ channel' = <<>>
            /\ trend' = <<>>
       ELSE /\ rpc' = After("refresh")
            /\ events' = Append(events, "refresh_box")
            /\ UNCHANGED <<channel, trend>>
    /\ UNCHANGED <<token, recorderVars, topVars>>

\* The user interacts with the page: Streamlit runs the script again.
Rerun ==
    /\ rpc = "end"
    /\ rpc' = "start"
    /\ events' = <<>>
    /\ channel' = <<>>
    /\ trend' = <<>>
    /\ UNCHANGED <<token, recorderVars, topVars>>

NextRender ==
    \/ \E clicked \in BOOLEAN : StartRun(clicked)
    \/ Authenticate
    \/ \E ok \in BOOLEAN, c \in Counts : FetchChannel(ok, c)
    \/ \E k \in Days : SaveStats(k)
    \/ RenderCards
    \/ RenderTrend
    \/ \E ok \in BOOLEAN : FetchPlaylist(ok)
    \/ \E ok \in BOOLEAN : FetchVideoStats(ok)
    \/ RenderTop10
    \/ \E ok \in BOOLEAN : FetchLatest(ok)
    \/ RenderLatest
    \/ \E clicked, ok \in BOOLEAN : Insights(clicked, ok)
    \/ \E checked \in BOOLEAN : AutoRefresh(checked)
    \/ Rerun

\* The render cycles of one session, one after another.
SpecRender == Init /\ [][NextRender]_vars

\* ------------------------------------------------- the top 10 by views

\* Line 240: maxResults of the uploads playlist request.
MaxResults == 20

\* Line 246: head(10).
TopN == 10

\* The moduli of the view-count patterns: 20 gives distinct counts (stride
\* permitting), 19 one tied pair, 10 ties throughout.
Moduli == {10, 19, 20}

\* A videos.list response of MaxResults items; item i has view count
\* (stride * i + shift) % m, except that with hidden set the first item's
\* statistics carry no viewCount.
Response(stride, shift, m, hidden) ==
    [i \in 1..MaxResults |->
        [title |-> i,
         statistics |-> IF hidden /\ i = 1
                        THEN [likeCount |-> <<"0">>]
                        ELSE [likeCount |-> <<"0">>,
                              viewCount |-> ToStr((stride * i + shift) % m)]]]

\* Lines 237-241, 243, 117-121: the request returns.
FetchItems(stride, shift, m, hidden) ==
    /\ items = <<>>
    /\ items' = Response(stride, shift, m, hidden)
    /\ UNCHANGED <<video_stats, df_videos, recorderVars, renderVars>>

\* Line 127: int(stats.get("viewCount", 0))
ViewsOf(stats) == IF "viewCount" \in DOMAIN stats THEN ParseInt(stats.viewCount) ELSE 0

\* Lines 122-131: one record per item, in the order of the response.
GetVideoStats ==
    /\ items # <<>>
    /\ video_stats = <<>>
    /\ video_stats' = [i \in 1..Len(items) |->
                          [title |-> items[i].title,
                           views |-> ViewsOf(items[i].statistics)]]
    /\ UNCHANGED <<items, df_videos, recorderVars, renderVars>>

RECURSIVE SortedHeads(_, _, _)
\* Line 246: sort_values(by="views", ascending=False) with the default
\* kind="quicksort", which is not stable, then head(n): every sequence of n
\* indices of list (all of them, when it has fewer) in descending order of
\* views, rows of equal views in any order, taken from the rows in rest.
SortedHeads(list, rest, n) ==
    IF n = 0 \/ rest = {} THEN {<<>>}
    ELSE LET top == {i \in rest : \A j \in rest : list[j].views <= list[i].views}
         IN UNION {{<<i>> \o h : h \in SortedHeads(list, rest \ {i}, n - 1)} :
                     i \in top}

\* Line 246: df_videos, each row with the index label it keeps from the list.
SortHead ==
    /\ video_stats # <<>>
    /\ df_videos = <<>>
    /\ \E h \in SortedHeads(video_stats, 1..Len(video_stats), TopN) :
          df_videos' = [r \in 1..Len(h) |->
                           [index |-> h[r],
                            title |-> video_stats[h[r]].title,
                            views |-> video_stats[h[r]].views]]
    /\ UNCHANGED <<items, video_stats, recorderVars, renderVars>>

NextTop ==
    \/ \E stride \in 1..MaxStride, m \in Moduli, hidden \in BOOLEAN :
          \E shift \in 0..(m - 1) : FetchItems(stride, shift, m, hidden)
    \/ GetVideoStats
    \/ SortHead

\* One pass over lines 237-246, from a session with no log.
InitTop == Init /\ ~exists

SpecTop == InitTop /\ [][NextTop]_vars

\* ------------------------------------------------- claims on the recorder

\* The lines of the stored file that carry date string t.
LinesOn(t) == {i \in 2..Len(file) : file[i][1] = t}

\* The days on which the recorder has run in this history.
CalledDays == {k \in Days : firstCounts[k] # NoCall}

\* C1: for every date D the log did not hold at the start, once
\* save_daily_stats has been invoked on D (any number of times, with the
\* same or other counts), the log holds exactly one record dated D, and it
\* carries the counts of the first of those invocations.
C1_OneRecordWithFirstCounts ==
    \A k \in CalledDays :
        DateStr(k) \notin initDates =>
            \E i \in 2..Len(file) :
                /\ LinesOn(DateStr(k)) = {i}
                /\ file[i] = <<DateStr(k), ToStr(firstCounts[k][1].subs),
                               ToStr(firstCounts[k][1].views),
                               ToStr(firstCounts[k][1].videos)>>

\* C1 witness: a repeated call on a day that was new to the log, with counts
\* other than the first call's; and the spec's example, the single row
\* 2024-01-01,100,5000,10 in a log that did not exist before.
C1_Witness ==
    /\ initDates = {}
    /\ firstCounts[2] # NoCall
    /\ today["p1"] = DateStr(2)
    /\ ~wrote["p1"]
    /\ args["p1"] # firstCounts[2][1]
    /\ file = <<Header,
                <<<<"2", "0", "2", "4", "-", "0", "1", "-", "0", "1">>,
                  <<"1", "0", "0">>, <<"5", "0", "0", "0">>, <<"1", "0">>>>>>

\* C2: the log holds one record per distinct day on which the recorder ran
\* (the days of the starting log included), and a step that changes the file
\* leaves the old lines in place and adds exactly one line at the end.
C2_GrowsByOnePerDay ==
    /\ [](Len(file) = (IF exists THEN 1 ELSE 0)
             + Cardinality(initDates \cup {DateStr(k) : k \in CalledDays}))
    /\ [][file' # file =>
             /\ Len(file') = (IF exists THEN Len(file) ELSE 1) + 1
             /\ \A i \in 2..Len(file) : file'[i] = file[i]]_vars

\* C2 witness: records of three distinct days, written on three calls.
C2_Witness ==
    /\ initDates = {}
    /\ Len(file) = 4
    /\ Cardinality(CalledDays) = 3

\* C3: a call made when the log already holds a record for that call's today
\* does not reach to_csv and leaves the file exactly as it was.
C3_NoWriteWhenPresent ==
    [][(today'["p1"] # <<>> /\ LinesOn(today'["p1"]) # {}) =>
          /\ ~wrote'["p1"]
          /\ file' = file
          /\ exists' = exists]_vars

\* C3 witness: a call with counts other than the stored ones found its day
\* present and wrote nothing.
C3_Witness ==
    /\ today["p1"] # <<>>
    /\ ~wrote["p1"]
    /\ \E i \in LinesOn(today["p1"]) : ParseInt(file[i][2]) # args["p1"].subs

\* C4: the log never holds two records with the same date, whatever the
\* clock showed at each call, and a call adds at most one line, dated with
\* that call's today.
C4_AtMostOnePerDate ==
    /\ [](\A i, j \in 2..Len(file) : file[i][1] = file[j][1] => i = j)
    /\ [][file' # file =>
             /\ Len(file') <= (IF exists THEN Len(file) ELSE 1) + 1
             /\ file'[Len(file')][1] = today'["p1"]]_vars

\* C4 witness: the clock moved backwards between two calls that both wrote.
C4_Witness ==
    /\ Len(file) >= 3
    /\ file[Len(file)][1] = today["p1"]
    /\ wrote["p1"]
    /\ ~DateLeq(file[Len(file) - 1][1], file[Len(file)][1])

\* -------------------------------------------- claims on concurrent runs

\* The line process p's call writes for its own day.
OwnLine(p) == <<today[p], ToStr(args[p].subs), ToStr(args[p].views),
                ToStr(args[p].videos)>>

InFile(l) == \E i \in 2..Len(file) : file[i] = l

InFrame(frame, p) ==
    \E i \in 1..Len(frame) :
        <<frame[i].date, ToStr(frame[i].subscribers), ToStr(frame[i].views),
          ToStr(frame[i].videos)>> = OwnLine(p)

\* Both calls have written, and neither had loaded the other's record.
BothWroteBlind(p, q) ==
    /\ p # q
    /\ pc[p] = "done" /\ wrote[p]
    /\ pc[q] = "done" /\ wrote[q]
    /\ ~InFrame(df[p], q)
    /\ ~InFrame(df[q], p)

\* C5: when two processes have both completed their write and each loaded
\* the file before the other wrote, the file holds the record of only one of
\* them: the later full-file overwrite dropped the other's.
C5_LastWriterWins ==
    \A p, q \in Procs :
        BothWroteBlind(p, q) => (InFile(OwnLine(p)) # InFile(OwnLine(q)))

\* C5 witness: the two processes wrote on distinct days and the file has no
\* record at all for the day of one of them.
C5_Witness ==
    \E p, q \in Procs :
        /\ BothWroteBlind(p, q)
        /\ today[p] # today[q]
        /\ LinesOn(today[p]) = {}
        /\ LinesOn(today[q]) # {}

\* C10: under every interleaving of the load, check and overwrite steps of
\* two processes, each with its own today, no two lines of the file carry
\* the same date.
C10_NoDuplicateDateUnderRace ==
    \A i, j \in 2..Len(file) : file[i][1] = file[j][1] => i = j

\* C10 witness: both processes wrote a record for the same day, having both
\* found it absent, and the file holds that day once.
C10_Witness ==
    \E p, q \in Procs :
        /\ BothWroteBlind(p, q)
        /\ today[p] = today[q]
        /\ Cardinality(LinesOn(today[p])) = 1

\* ------------------------------------------------ claims on the render cycle

Happened(e) == \E i \in 1..Len(events) : events[i] = e

\* Every occurrence of event e in the cycle has an occurrence of d before it.
Precedes(d, e) ==
    \A i \in 1..Len(events) :
        events[i] = e => \E j \in 1..(i - 1) : events[j] = d

Requests == {"channels.list", "playlistItems.list", "videos.list", "search.list"}

\* The sections built from fetched data.
Sections == {"cards", "trend_chart", "download", "top10_table", "top10_chart",
             "latest_table"}

Rendered == {events[i] : i \in 1..Len(events)} \cap Sections

Count(e) == Cardinality({i \in 1..Len(events) : events[i] = e})

\* A cycle in which a request raised HttpError: one st.error, which ends the
\* cycle, and no request made twice.
ErrorEndsCycle ==
    /\ Count("st.error") = 1
    /\ events[Len(events)] = "st.error"
    /\ rpc = "end"
    /\ \A r \in Requests : Count(r) <= 1

\* C6 as stated: after a request has raised HttpError the cycle has ended
\* with one error message, nothing was retried, and none of the sections
\* built from fetched data is on the page.
C6_NoSectionRenderedOnError ==
    Happened("HttpError") => (ErrorEndsCycle /\ Rendered = {})

\* The sections the script renders before it makes request r.
RenderedBefore(r) ==
    CASE r = "channels.list" -> {}
      [] r = "playlistItems.list" -> {"cards", "trend_chart", "download"}
      [] r = "videos.list" -> {"cards", "trend_chart", "download"}
      [] r = "search.list" -> {"cards", "trend_chart", "download",
                               "top10_table", "top10_chart"}

\* C6 as amended: after a request has raised HttpError the cycle has ended
\* with one error message and nothing was retried; the sections on the page
\* are exactly those the script renders before the failed request, and none
\* of the later ones.
C6_OnlyEarlierSectionsOnError ==
    Happened("HttpError") =>
        /\ ErrorEndsCycle
        /\ events[Len(events) - 2] \in Requests
        /\ Rendered = RenderedBefore(events[Len(events) - 2])

\* C6 witness: the latest-videos search failed with the cards, the trend
\* chart and the top-10 table already on the page.
C6_Witness ==
    /\ Happened("HttpError")
    /\ events[Len(events) - 2] = "search.list"
    /\ Happened("cards") /\ Happened("trend_chart") /\ Happened("top10_table")

\* C8 as stated: the points handed to the trend chart are in ascending date
\* order.
C8_TrendInDateOrder ==
    \A i, j \in 1..Len(trend) :
        i < j => DateLeq(trend[i].date, trend[j].date)

\* C9: in every cycle the recorder runs only after authentication and a
\* channel-stats fetch that returned; no card, chart or table is rendered
\* before the recorder has run; and the language model is called only after
\* a click on the insights button and after both tables are rendered.
C9_CycleOrder ==
    /\ Precedes("auth", "channels.list")
    /\ Precedes("auth", "save_daily_stats")
    /\ \A i \in 1..Len(events) :
          events[i] = "save_daily_stats" =>
              \E j \in 1..(i - 1) : /\ events[j] = "channels.list"
                                    /\ events[j + 1] # "HttpError"
    /\ \A s \in Sections : Precedes("save_daily_stats", s)
    /\ Precedes("click", "generate_content")
    /\ Precedes("top10_table", "generate_content")
    /\ Precedes("latest_table", "generate_content")

\* C9 witness: a cycle that ran to the end and produced insights on a click.
C9_Witness ==
    /\ Happened("insights")
    /\ Happened("save_daily_stats")
    /\ Rendered = Sections

\* ---------------------------------------------------- claims on the top 10

\* C7 as stated: of 20 records the output holds the 10 with the highest
\* views, in descending order of views, records of equal views in their
\* input order, also when the tie lies across the 10th and 11th place.
C7_TopTenStable ==
    (df_videos # <<>> /\ Len(video_stats) = MaxResults) =>
        /\ Len(df_videos) = TopN
        /\ \A a, b \in 1..TopN :
              a < b => /\ df_videos[a].views >= df_videos[b].views
                       /\ df_videos[a].views = df_videos[b].views
                             => df_videos[a].index < df_videos[b].index
        /\ \A a \in 1..TopN :
              df_videos[a].views = video_stats[df_videos[a].index].views
        /\ \A i \in 1..MaxResults :
              (\A a \in 1..TopN : df_videos[a].index # i) =>
                  \A a \in 1..TopN :
                      \/ video_stats[i].views < df_videos[a].views
                      \/ /\ video_stats[i].views = df_videos[a].views
                         /\ df_videos[a].index < i

====
